---- MODULE Spec2Model ----
(***************************************************************************)
(* better_peekable: a fixed-capacity ring buffer (Dequeue<T, N>) and the   *)
(* bounded-lookahead iterator adapter built on it (BPeekN<I, N>) with its  *)
(* typed cursor (PeekCursor<Ind>).                                         *)
(*                                                                         *)
(* Values of the model                                                     *)
(*   Option<T>      None is <<>>, Some(x) is <<x>>                         *)
(*   Dequeue<T, N>  a record [data, start, len]; data maps the physical    *)
(*                  slots 0..N-1 to an item or to Vacant                   *)
(*   the source I   the sequence of the items it has not produced yet      *)
(*                  (a fused, exact-size, double-ended source such as a    *)
(*                  range or a Vec's into_iter)                            *)
(*   BPeekN<I, N>   a record [inner, queue]                                *)
(*   closures       a predicate is the set P of the items it accepts       *)
(***************************************************************************)
EXTENDS Integers, Sequences, FiniteSets, TLC

\* Largest buffer capacity N explored.
MaxN == 3
\* Largest number of items the source produces.
MaxSrc == 4
\* The items pushed onto a bare Dequeue are drawn from 1..MaxItem.
MaxItem == 2

\* A slot of the backing array that holds no valid value (MaybeUninit).
Vacant == 0

None == <<>>
Some(x) == <<x>>

\* F(value), with value evaluated once: `let v = value; F(v)`.
With(value, F(_)) == CHOOSE out \in {F(v) : v \in {value}} : TRUE

VARIABLES
    N,                \* the capacity, a type parameter: fixed by Init
    debug_assertions, \* the build profile: debug_assert! is compiled in
    original,         \* the full output of the source, for reference
    inner,            \* BPeekN.inner: what the source has left
    queue,            \* BPeekN.queue: the Dequeue
    cursor,           \* Ind of the live PeekCursor, 0 when there is none
    alive,            \* FALSE once a by-value operation consumed the adapter
    taken,            \* items that left the adapter at the front, in order
    takenBack,        \* items that left the adapter at the back, in order
    hist,             \* the last operation: name, argument, state before, outcome
    panic             \* "" or the message of the panic that ended the run

vars == <<N, debug_assertions, original, inner, queue, cursor, alive,
          taken, takenBack, hist, panic>>

----------------------------------------------------------------------------
(* dequeue/mod.rs: Wrapping<N> and Bounded<N>                               *)

\* Wrapping::inc
Wrapping_inc(w) == IF w = N - 1 THEN 0 ELSE w + 1

\* Wrapping::dec (checked_sub(1), else N - 1)
Wrapping_dec(w) == IF w >= 1 THEN w - 1 ELSE N - 1

\* Bounded::inc: Err(self) at N, else Ok(self + 1)
Bounded_inc(b) == IF b = N THEN [ok |-> FALSE, val |-> b]
                  ELSE [ok |-> TRUE, val |-> b + 1]

\* Bounded::dec: Ok(self - 1) when checked_sub succeeds, else Err(self)
Bounded_dec(b) == IF b >= 1 THEN [ok |-> TRUE, val |-> b - 1]
                  ELSE [ok |-> FALSE, val |-> b]

\* Wrapping += Bounded: overflowing_add, then wrapping_sub(N) when the sum
\* overflowed or reached N.  usize is taken at its narrowest width, 16 bits.
add(w, b) ==
    LET usize == 65536
        raw   == w + b
        ov    == raw >= usize
        sum   == raw % usize
    IN  IF ov \/ sum >= N THEN (sum + usize - N) % usize ELSE sum

----------------------------------------------------------------------------
(* dequeue/mod.rs: Dequeue<T, N>                                            *)

\* Dequeue::new
new == [data |-> [i \in 0..(N - 1) |-> Vacant], start |-> 0, len |-> 0]

\* write_at that takes the logical position for the physical slot.
write_at_unshifted(q, pos, item) == [q EXCEPT !.data[pos] = item]

\* Dequeue::write_at
write_at(q, pos, item) == [q EXCEPT !.data[add(q.start, pos)] = item]

\* Dequeue::take_at: assume_init_read moves the value out of the slot
take_at(q, pos) ==
    [queue |-> [q EXCEPT !.data[add(q.start, pos)] = Vacant],
     res   |-> q.data[add(q.start, pos)]]

\* Dequeue::read_at
read_at(q, pos) == q.data[add(q.start, pos)]

\* push_back that writes at logical 0 instead of logical len.
push_back_at_front(q, item) ==
    LET inc == Bounded_inc(q.len)
    IN  IF inc.ok
        THEN [queue |-> [write_at(q, 0, item) EXCEPT !.len = inc.val],
              status |-> "Success", item |-> None]
        ELSE [queue |-> q, status |-> "Rejected", item |-> Some(item)]

\* Dequeue::push_back
push_back(q, item) ==
    LET inc == Bounded_inc(q.len)
    IN  IF inc.ok
        THEN [queue |-> [write_at(q, q.len, item) EXCEPT !.len = inc.val],
              status |-> "Success", item |-> None]
        ELSE [queue |-> q, status |-> "Rejected", item |-> Some(item)]

\* pop_back that takes the last item and leaves len as it was.
pop_back_len_kept(q) ==
    LET dec == Bounded_dec(q.len)
    IN  IF dec.ok
        THEN LET t == take_at(q, dec.val)
             IN  [queue |-> t.queue, res |-> Some(t.res)]
        ELSE [queue |-> q, res |-> None]

\* Dequeue::pop_back
pop_back(q) ==
    LET dec == Bounded_dec(q.len)
    IN  IF dec.ok
        THEN LET t == take_at([q EXCEPT !.len = dec.val], dec.val)
             IN  [queue |-> t.queue, res |-> Some(t.res)]
        ELSE [queue |-> q, res |-> None]

\* pop_front that advances start even when there is nothing to pop.
pop_front_always_moves(q) ==
    LET dec == Bounded_dec(q.len)
    IN  IF dec.ok
        THEN LET t == take_at(q, 0)
             IN  [queue |-> [t.queue EXCEPT !.len = dec.val,
                                            !.start = Wrapping_inc(q.start)],
                  res |-> Some(t.res)]
        ELSE [queue |-> [q EXCEPT !.start = Wrapping_inc(q.start)],
              res |-> None]

\* pop_front that forgets start.inc().
pop_front_keeps_start(q) ==
    LET dec == Bounded_dec(q.len)
    IN  IF dec.ok
        THEN LET t == take_at(q, 0)
             IN  [queue |-> [t.queue EXCEPT !.len = dec.val],
                  res |-> Some(t.res)]
        ELSE [queue |-> q, res |-> None]

\* Dequeue::pop_front
pop_front(q) ==
    LET dec == Bounded_dec(q.len)
    IN  IF dec.ok
        THEN LET t == take_at(q, 0)
             IN  [queue |-> [t.queue EXCEPT !.len = dec.val,
                                            !.start = Wrapping_inc(q.start)],
                  res |-> Some(t.res)]
        ELSE [queue |-> q, res |-> None]

\* get that reads the physical slot i, whatever start is.
get_physical(q, i) == IF i < q.len THEN Some(q.data[i]) ELSE None

\* Dequeue::get
get(q, i) == IF i < q.len THEN Some(read_at(q, i)) ELSE None

\* Dequeue::len
len(q) == q.len

\* Dequeue::is_empty
is_empty(q) == q.len = 0

\* The slots of clear without the second run of a wrapped layout.
clear_slots_first_run(q) ==
    LET dec == Bounded_dec(q.len)
    IN  IF ~dec.ok THEN <<>>
        ELSE LET last_position == add(q.start, dec.val)
             IN  IF last_position >= q.start
                 THEN [i \in 1..(last_position - q.start + 1) |->
                          q.start + i - 1]
                 ELSE [i \in 1..(N - q.start) |-> q.start + i - 1]

\* Dequeue::clear, its unsafe block: the physical slots it drops, in the order
\* it drops them (one run, or start..N and then 0..=last_position)
clear_slots(q) ==
    LET dec == Bounded_dec(q.len)
    IN  IF ~dec.ok THEN <<>>
        ELSE LET last_position == add(q.start, dec.val)
             IN  IF last_position >= q.start
                 THEN [i \in 1..(last_position - q.start + 1) |->
                          q.start + i - 1]
                 ELSE [i \in 1..(N - q.start) |-> q.start + i - 1]
                      \o [i \in 1..(last_position + 1) |-> i - 1]

\* Dequeue::clear: returns at once on an empty buffer, else drops the one or
\* two physical runs, then resets start and len
clear(q) ==
    LET dec == Bounded_dec(q.len)
    IN  IF ~dec.ok THEN q
        ELSE LET dropped == {clear_slots(q)[i] : i \in DOMAIN clear_slots(q)}
             IN  [data  |-> [i \in 0..(N - 1) |->
                                IF i \in dropped THEN Vacant ELSE q.data[i]],
                  start |-> 0,
                  len   |-> 0]

\* The logical content of the buffer, front to back (what get(0), get(1), ...
\* return).
RECURSIVE ContentsFrom(_, _)
ContentsFrom(q, i) ==
    IF get(q, i) = None THEN <<>>
    ELSE <<get(q, i)[1]>> \o ContentsFrom(q, i + 1)

Contents(q) == ContentsFrom(q, 0)

\* push_front that moves start before it looks at the capacity.
push_front_dec_first(q, item) ==
    LET inc   == Bounded_inc(q.len)
        moved == [q EXCEPT !.start = Wrapping_dec(q.start)]
    IN  IF inc.ok
        THEN [queue |-> [write_at(moved, 0, item) EXCEPT !.len = inc.val],
              status |-> "Success", item |-> None]
        ELSE [queue |-> moved, status |-> "Rejected", item |-> Some(item)]

\* Dequeue::push_front: start.dec(), write at logical 0, len = incremented
push_front(q, item) ==
    LET inc == Bounded_inc(q.len)
    IN  IF inc.ok
        THEN LET moved == [q EXCEPT !.start = Wrapping_dec(q.start)]
             IN  [queue |-> [write_at(moved, 0, item) EXCEPT !.len = inc.val],
                  status |-> "Success", item |-> None]
        ELSE [queue |-> q, status |-> "Rejected", item |-> Some(item)]

\* Dequeue::overwrite_at: assume_init_drop on the slot, then write
overwrite_at(q, pos, item) ==
    LET p == add(q.start, pos)
    IN  [queue   |-> [q EXCEPT !.data[p] = item],
         dropped |-> q.data[p]]

\* push_back_overwrite that forgets start.inc() on a full buffer.
push_back_overwrite_static(q, item) ==
    LET inc == Bounded_inc(q.len)
    IN  IF inc.ok
        THEN [queue |-> [write_at(q, q.len, item) EXCEPT !.len = inc.val],
              dropped |-> None]
        ELSE LET o == overwrite_at(q, 0, item)
             IN  [queue |-> o.queue, dropped |-> Some(o.dropped)]

\* Dequeue::push_back_overwrite
push_back_overwrite(q, item) ==
    LET inc == Bounded_inc(q.len)
    IN  IF inc.ok
        THEN [queue |-> [write_at(q, q.len, item) EXCEPT !.len = inc.val],
              dropped |-> None]
        ELSE LET o == overwrite_at(q, 0, item)
             IN  [queue |-> [o.queue EXCEPT
                                 !.start = Wrapping_inc(o.queue.start)],
                  dropped |-> Some(o.dropped)]

\* push_front_overwrite that forgets start.dec() on a full buffer.
push_front_overwrite_static(q, item) ==
    LET inc   == Bounded_inc(q.len)
        moved == [q EXCEPT !.start = Wrapping_dec(q.start)]
    IN  IF inc.ok
        THEN [queue |-> [write_at(moved, 0, item) EXCEPT !.len = inc.val],
              dropped |-> None]
        ELSE LET o == overwrite_at(q, 0, item)
             IN  [queue |-> o.queue, dropped |-> Some(o.dropped)]

\* Dequeue::push_front_overwrite
push_front_overwrite(q, item) ==
    LET inc   == Bounded_inc(q.len)
        moved == [q EXCEPT !.start = Wrapping_dec(q.start)]
    IN  IF inc.ok
        THEN [queue |-> [write_at(moved, 0, item) EXCEPT !.len = inc.val],
              dropped |-> None]
        ELSE LET o == overwrite_at(moved, 0, item)
             IN  [queue |-> o.queue, dropped |-> Some(o.dropped)]

\* Dequeue::read_at_mut: the reference is the physical slot it points to
read_at_mut(q, pos) == add(q.start, pos)

\* Dequeue::get_mut
get_mut(q, i) == IF i < q.len THEN Some(read_at_mut(q, i)) ELSE None

\* Dequeue::slices: the one or two physical runs that hold the items
slices(q) ==
    LET dec == Bounded_dec(q.len)
    IN  IF ~dec.ok THEN <<(<<>>), (<<>>)>>
        ELSE LET last_position == add(q.start, dec.val)
             IN  IF last_position >= q.start
                 THEN <<[i \in 1..(last_position - q.start + 1) |->
                            q.data[q.start + i - 1]],
                        (<<>>)>>
                 ELSE <<[i \in 1..(N - q.start) |-> q.data[q.start + i - 1]],
                        [i \in 1..(last_position + 1) |-> q.data[i - 1]]>>

\* clone that copies the first slice only.
clone_first_slice(q) ==
    LET both == slices(q)[1]
    IN  [data  |-> [i \in 0..(N - 1) |->
                       IF i < Len(both) THEN both[i + 1] ELSE Vacant],
         start |-> 0,
         len   |-> q.len]

\* Clone for Dequeue: the two slices are written from slot 0 on, start is
\* ZERO, len is copied
clone(q) ==
    LET both == slices(q)[1] \o slices(q)[2]
    IN  [data  |-> [i \in 0..(N - 1) |->
                       IF i < Len(both) THEN both[i + 1] ELSE Vacant],
         start |-> 0,
         len   |-> q.len]

\* Index for Dequeue: get(index), or the panic
index(q, i) ==
    IF get(q, i) # None
    THEN [res |-> get(q, i), panic |-> ""]
    ELSE [res |-> None,
          panic |-> "Index out of bounds: index " \o ToString(i)
                    \o ", but length " \o ToString(q.len)]

\* IndexMut for Dequeue: get_mut(index), or the panic
index_mut(q, i) ==
    IF get_mut(q, i) # None
    THEN [res |-> get_mut(q, i), panic |-> ""]
    ELSE [res |-> None,
          panic |-> "Index out of bounds: index " \o ToString(i)
                    \o ", but length " \o ToString(q.len)]

\* Drop for Dequeue: clear()
drop(q) == clear(q)

----------------------------------------------------------------------------
(* The wrapped source I, as the standard library drives it.                 *)

\* I::next
inner_next(s) == IF s = <<>> THEN [inner |-> s, res |-> None]
                 ELSE [inner |-> Tail(s), res |-> Some(Head(s))]

\* I::next_back
inner_next_back(s) ==
    IF s = <<>> THEN [inner |-> s, res |-> None]
    ELSE [inner |-> SubSeq(s, 1, Len(s) - 1), res |-> Some(s[Len(s)])]

\* I::size_hint of an exact-size source
inner_size_hint(s) == <<Len(s), Some(Len(s))>>

\* I::count
inner_count(s) == [inner |-> <<>>, res |-> Len(s)]

\* I::last
inner_last(s) == [inner |-> <<>>,
                  res |-> IF s = <<>> THEN None ELSE Some(s[Len(s)])]

\* I::nth
inner_nth(s, n) ==
    IF n < Len(s)
    THEN [inner |-> SubSeq(s, n + 2, Len(s)), res |-> Some(s[n + 1])]
    ELSE [inner |-> <<>>, res |-> None]

\* The caller's closures.  A predicate F: FnMut(Item) -> bool is the set P of
\* the items it accepts.
pred(P, x) == x \in P

\* F: FnMut(Item) -> Option<B> of find_map
map_f(P, x) == IF x \in P THEN Some(10 * x) ELSE None

\* F: FnMut(B, Item) -> B of fold: order-sensitive
fold_f(acc, x) == 3 * acc + x

\* F: FnMut(Item, Item) -> Item of reduce: order-sensitive
reduce_f(a, b) == 2 * a + b

\* Index of the first item of s on which the predicate answers `want`, 0 when
\* there is none: where a short-circuiting std method stops.
FirstIdx(s, P, want) ==
    IF \E i \in 1..Len(s) : pred(P, s[i]) = want
    THEN CHOOSE i \in 1..Len(s) :
            /\ pred(P, s[i]) = want
            /\ \A j \in 1..(i - 1) : pred(P, s[j]) # want
    ELSE 0

\* What a short-circuiting std method leaves of s, and the items it examined.
Stop(s, i) == IF i = 0 THEN <<>> ELSE SubSeq(s, i + 1, Len(s))
Seen(s, i) == IF i = 0 THEN s ELSE SubSeq(s, 1, i)

\* I::all
inner_all(s, P) ==
    LET i == FirstIdx(s, P, FALSE)
    IN  [inner |-> Stop(s, i), res |-> i = 0, calls |-> Seen(s, i)]

\* I::any
inner_any(s, P) ==
    LET i == FirstIdx(s, P, TRUE)
    IN  [inner |-> Stop(s, i), res |-> i # 0, calls |-> Seen(s, i)]

\* I::find
inner_find(s, P) ==
    LET i == FirstIdx(s, P, TRUE)
    IN  [inner |-> Stop(s, i), res |-> IF i = 0 THEN None ELSE Some(s[i]),
         calls |-> Seen(s, i)]

\* I::find_map
inner_find_map(s, P) ==
    LET i == FirstIdx(s, P, TRUE)
    IN  [inner |-> Stop(s, i), res |-> IF i = 0 THEN None ELSE map_f(P, s[i]),
         calls |-> Seen(s, i)]

\* I::position
inner_position(s, P) ==
    LET i == FirstIdx(s, P, TRUE)
    IN  [inner |-> Stop(s, i), res |-> IF i = 0 THEN None ELSE Some(i - 1),
         calls |-> Seen(s, i)]

\* I::fold
RECURSIVE inner_fold(_, _)
inner_fold(s, init) ==
    IF s = <<>> THEN init ELSE inner_fold(Tail(s), fold_f(init, Head(s)))

\* I::fold with the closure of reduce
RECURSIVE inner_fold_reduce(_, _)
inner_fold_reduce(s, init) ==
    IF s = <<>> THEN init ELSE inner_fold_reduce(Tail(s), reduce_f(init, Head(s)))

\* I::reduce
inner_reduce(s) ==
    IF s = <<>> THEN None ELSE Some(inner_fold_reduce(Tail(s), Head(s)))

----------------------------------------------------------------------------
(* iterator/mod.rs: BPeekN<I, N>                                            *)

\* An operation's outcome: the adapter afterwards, the value returned, the
\* items the caller's closure was applied to (in call order), and the panic
\* message when the operation panicked.
Outcome(in, q, res, calls, msg) ==
    [self |-> [inner |-> in, queue |-> q], res |-> res, calls |-> calls,
     panic |-> msg]

\* BPeekExt::bpeekable
bpeekable(src) == [inner |-> src, queue |-> new]

\* next that asks the source before the buffer.
next_source_first(self) ==
    LET i == inner_next(self.inner)
    IN  IF i.res # None
        THEN Outcome(i.inner, self.queue, i.res, <<>>, "")
        ELSE LET p == pop_front(self.queue)
             IN  Outcome(i.inner, p.queue, p.res, <<>>, "")

\* BPeekN::next
next(self) ==
    LET p == pop_front(self.queue)
    IN  IF p.res # None
        THEN Outcome(self.inner, p.queue, p.res, <<>>, "")
        ELSE LET i == inner_next(self.inner)
             IN  Outcome(i.inner, p.queue, i.res, <<>>, "")

\* next_back that takes from the back of the buffer before the source.
next_back_buffer_first(self) ==
    LET p == pop_back(self.queue)
    IN  IF p.res # None
        THEN Outcome(self.inner, p.queue, p.res, <<>>, "")
        ELSE LET i == inner_next_back(self.inner)
             IN  Outcome(i.inner, p.queue, i.res, <<>>, "")

\* DoubleEndedIterator::next_back for BPeekN
next_back(self) ==
    LET i == inner_next_back(self.inner)
    IN  IF i.res # None
        THEN Outcome(i.inner, self.queue, i.res, <<>>, "")
        ELSE LET p == pop_back(self.queue)
             IN  Outcome(i.inner, p.queue, p.res, <<>>, "")

\* (0..k).map(|_| queue.pop_front().expect(msg)).collect()
RECURSIVE pop_n(_, _, _)
pop_n(q, k, msg) ==
    IF k = 0 THEN [queue |-> q, res |-> <<>>, panic |-> ""]
    ELSE LET p == pop_front(q)
         IN  IF p.res = None THEN [queue |-> p.queue, res |-> <<>>, panic |-> msg]
             ELSE LET rest == pop_n(p.queue, k - 1, msg)
                  IN  [rest EXCEPT !.res = p.res \o rest.res]

\* BPeekN::size_hint
size_hint(self) ==
    LET buffered == len(self.queue)
        hint     == inner_size_hint(self.inner)
    IN  Outcome(self.inner, self.queue,
                <<buffered + hint[1],
                  IF hint[2] = None THEN None ELSE Some(buffered + hint[2][1])>>,
                <<>>, "")

\* count that forgets the buffered items.
count_source_only(self) ==
    LET c == inner_count(self.inner)
    IN  Outcome(c.inner, drop(self.queue), c.res, <<>>, "")

\* BPeekN::count: self is taken by value, so the buffer is dropped, with the
\* items still in it, when the function returns
count(self) ==
    LET c == inner_count(self.inner)
    IN  Outcome(c.inner, drop(self.queue), len(self.queue) + c.res, <<>>, "")

\* last that looks at the back of the buffer before the source.
last_buffer_first(self) ==
    LET p == pop_back(self.queue)
    IN  IF p.res # None
        THEN Outcome(self.inner, drop(p.queue), p.res, <<>>, "")
        ELSE LET l == inner_last(self.inner)
             IN  Outcome(l.inner, drop(p.queue), l.res, <<>>, "")

\* BPeekN::last: self is taken by value, so on either return the buffer is
\* dropped with the items still in it
last(self) ==
    LET l == inner_last(self.inner)
    IN  IF l.res # None
        THEN Outcome(l.inner, drop(self.queue), l.res, <<>>, "")
        ELSE LET p == pop_back(self.queue)
             IN  Outcome(l.inner, drop(p.queue), p.res, <<>>, "")

\* BPeekN::nth
nth(self, n) ==
    LET msg == "Must be present, since index of target is less than number of elements in the queue"
    IN  IF n > len(self.queue)
        THEN LET i == inner_nth(self.inner, n - len(self.queue))
             IN  Outcome(i.inner, clear(self.queue), i.res, <<>>, "")
        ELSE \* for _ in 1..n: n - 1 iterations, none when n is 0
             LET skip == pop_n(self.queue, IF n >= 1 THEN n - 1 ELSE 0, msg)
                 p    == pop_front(skip.queue)
             IN  IF skip.panic # ""
                 THEN Outcome(self.inner, skip.queue, None, <<>>, skip.panic)
                 ELSE IF p.res = None
                 THEN Outcome(self.inner, p.queue, None, <<>>, msg)
                 ELSE Outcome(self.inner, p.queue, p.res, <<>>, "")

\* while let Some(item) = queue.pop_front() { .. }: the items in pop order
RECURSIVE drain_all(_)
drain_all(q) ==
    LET p == pop_front(q)
    IN  IF p.res = None THEN [queue |-> p.queue, res |-> <<>>]
        ELSE LET rest == drain_all(p.queue)
             IN  [rest EXCEPT !.res = p.res \o rest.res]

\* BPeekN::for_each: calls lists the items f received
for_each(self) ==
    LET d == drain_all(self.queue)
    IN  Outcome(<<>>, d.queue, None, d.res \o self.inner, "")

\* BPeekN::collect: from_fn(pop_front).chain(inner).collect()
collect(self) ==
    LET d == drain_all(self.queue)
    IN  Outcome(<<>>, d.queue, d.res \o self.inner, <<>>, "")

\* while let Some(item) = queue.pop_front() { init = f(init, item); }
RECURSIVE queue_fold(_, _)
queue_fold(q, init) ==
    LET p == pop_front(q)
    IN  IF p.res = None THEN [queue |-> p.queue, res |-> init, calls |-> <<>>]
        ELSE LET rest == queue_fold(p.queue, fold_f(init, p.res[1]))
             IN  [rest EXCEPT !.calls = p.res \o rest.calls]

\* BPeekN::fold
fold(self, init) ==
    LET d == queue_fold(self.queue, init)
    IN  Outcome(<<>>, d.queue, inner_fold(self.inner, d.res), d.calls \o self.inner, "")

\* while let Some(item) = queue.pop_front() { res = f(res, item); }
RECURSIVE queue_reduce(_, _)
queue_reduce(q, res) ==
    LET p == pop_front(q)
    IN  IF p.res = None THEN [queue |-> p.queue, res |-> res]
        ELSE queue_reduce(p.queue, reduce_f(res, p.res[1]))

\* reduce that reduces the source on its own and combines the two results.
reduce_source_apart(self) ==
    LET p == pop_front(self.queue)
    IN  IF p.res # None
        THEN LET d == queue_reduce(p.queue, p.res[1])
                 r == inner_reduce(self.inner)
             IN  Outcome(<<>>, d.queue,
                         IF r = None THEN Some(d.res) ELSE Some(reduce_f(d.res, r[1])),
                         <<>>, "")
        ELSE Outcome(<<>>, p.queue, inner_reduce(self.inner), <<>>, "")

\* BPeekN::reduce
reduce(self) ==
    LET p == pop_front(self.queue)
    IN  IF p.res # None
        THEN LET d == queue_reduce(p.queue, p.res[1])
             IN  Outcome(<<>>, d.queue, Some(inner_fold_reduce(self.inner, d.res)),
                         <<>>, "")
        ELSE Outcome(<<>>, p.queue, inner_reduce(self.inner), <<>>, "")

\* while let Some(item) = queue.pop_front() { if f(item) == want { return .. } }:
\* hit is the item that ended the loop, calls the items f received
RECURSIVE drain_while(_, _, _)
drain_while(q, P, want) ==
    LET p == pop_front(q)
    IN  IF p.res = None THEN [queue |-> p.queue, hit |-> None, calls |-> <<>>]
        ELSE IF pred(P, p.res[1]) = want
        THEN [queue |-> p.queue, hit |-> p.res, calls |-> p.res]
        ELSE LET rest == drain_while(p.queue, P, want)
             IN  [rest EXCEPT !.calls = p.res \o rest.calls]

\* BPeekN::all
all(self, P) ==
    LET d == drain_while(self.queue, P, FALSE)
    IN  IF d.hit # None
        THEN Outcome(self.inner, d.queue, FALSE, d.calls, "")
        ELSE LET i == inner_all(self.inner, P)
             IN  Outcome(i.inner, d.queue, i.res, d.calls \o i.calls, "")

\* for item in inner.by_ref() { if f(item) { return true; } }
RECURSIVE by_ref_any(_, _)
by_ref_any(s, P) ==
    LET i == inner_next(s)
    IN  IF i.res = None THEN [inner |-> i.inner, res |-> FALSE, calls |-> <<>>]
        ELSE IF pred(P, i.res[1])
        THEN [inner |-> i.inner, res |-> TRUE, calls |-> i.res]
        ELSE LET rest == by_ref_any(i.inner, P)
             IN  [rest EXCEPT !.calls = i.res \o rest.calls]

\* BPeekN::any: the buffer, then the source item by item, then the source's any
any(self, P) ==
    LET d == drain_while(self.queue, P, TRUE)
    IN  IF d.hit # None
        THEN Outcome(self.inner, d.queue, TRUE, d.calls, "")
        ELSE LET l == by_ref_any(self.inner, P)
             IN  IF l.res
                 THEN Outcome(l.inner, d.queue, TRUE, d.calls \o l.calls, "")
                 ELSE LET i == inner_any(l.inner, P)
                      IN  Outcome(i.inner, d.queue, i.res,
                                  d.calls \o l.calls \o i.calls, "")

\* BPeekN::find
find(self, P) ==
    LET d == drain_while(self.queue, P, TRUE)
    IN  IF d.hit # None
        THEN Outcome(self.inner, d.queue, d.hit, d.calls, "")
        ELSE LET i == inner_find(self.inner, P)
             IN  Outcome(i.inner, d.queue, i.res, d.calls \o i.calls, "")

\* BPeekN::find_map
find_map(self, P) ==
    LET d == drain_while(self.queue, P, TRUE)
    IN  IF d.hit # None
        THEN Outcome(self.inner, d.queue, map_f(P, d.hit[1]), d.calls, "")
        ELSE LET i == inner_find_map(self.inner, P)
             IN  Outcome(i.inner, d.queue, i.res, d.calls \o i.calls, "")

\* position that does not count the buffered items it skipped.
position_unshifted(self, P) ==
    LET d == drain_while(self.queue, P, TRUE)
    IN  IF d.hit # None
        THEN Outcome(self.inner, d.queue, Some(Len(d.calls) - 1), d.calls, "")
        ELSE LET i == inner_position(self.inner, P)
             IN  Outcome(i.inner, d.queue, i.res, d.calls \o i.calls, "")

\* BPeekN::position: skipped counts the buffered items the predicate refused
position(self, P) ==
    LET d == drain_while(self.queue, P, TRUE)
    IN  IF d.hit # None
        THEN Outcome(self.inner, d.queue, Some(Len(d.calls) - 1), d.calls, "")
        ELSE LET i       == inner_position(self.inner, P)
                 skipped == Len(d.calls)
             IN  Outcome(i.inner, d.queue,
                         IF i.res = None THEN None ELSE Some(skipped + i.res[1]),
                         d.calls \o i.calls, "")

\* for _ in 0..k { let Some(item) = inner.next() else { break }; queue.push_back(item).assert(); }
RECURSIVE fill(_, _)
fill(self, k) ==
    IF k <= 0 THEN [inner |-> self.inner, queue |-> self.queue, panic |-> ""]
    ELSE LET i == inner_next(self.inner)
         IN  IF i.res = None
             THEN [inner |-> i.inner, queue |-> self.queue, panic |-> ""]
             ELSE LET p == push_back(self.queue, i.res[1])
                  IN  IF p.status = "Rejected"
                      THEN [inner |-> i.inner, queue |-> p.queue,
                            panic |-> "Dequeue out of capacity, failed to push the element"]
                      ELSE fill([inner |-> i.inner, queue |-> p.queue], k - 1)

\* The run scan caching `result` itself, not its negation, for the next run.
RECURSIVE scan_run_same(_, _, _, _)
scan_run_same(q, additional, result, P) ==
    LET val == get(q, additional)
    IN  IF val = None
        THEN [additional |-> additional, next_result |-> None, calls |-> <<>>]
        ELSE IF pred(P, val[1]) = result
        THEN LET rest == scan_run_same(q, additional + 1, result, P)
             IN  [rest EXCEPT !.calls = val \o rest.calls]
        ELSE [additional |-> additional, next_result |-> Some(result), calls |-> val]

\* while queue.get(additional).is_some_and(|val| ..) { additional += 1; } of
\* BPeekN::partition: the length of the run of buffered items on which f
\* answers `result`, and Some(!result) as next_result when the run ended on an
\* item on which it answers otherwise
RECURSIVE scan_run(_, _, _, _)
scan_run(q, additional, result, P) ==
    LET val == get(q, additional)
    IN  IF val = None
        THEN [additional |-> additional, next_result |-> None, calls |-> <<>>]
        ELSE IF pred(P, val[1]) = result
        THEN LET rest == scan_run(q, additional + 1, result, P)
             IN  [rest EXCEPT !.calls = val \o rest.calls]
        ELSE [additional |-> additional, next_result |-> Some(~result), calls |-> val]

\* The pass that asks f about first although the answer was cached.
partition_run_recalls(st, q, first, P) ==
    LET result == pred(P, first)
    IN  With(scan_run(q, 0, result, P), LAMBDA run :
        With(pop_n(q, run.additional,
                   "Contains at least as many elements as passed the test"), LAMBDA t :
            [st EXCEPT !.queue = t.queue,
                       !.next_result = run.next_result,
                       !.trues = IF result THEN @ \o <<first>> \o t.res ELSE @,
                       !.falses = IF result THEN @ ELSE @ \o <<first>> \o t.res,
                       !.calls = @ \o <<first>> \o run.calls,
                       !.panic = t.panic]))

\* One pass of `while let Some(first) = queue.pop_front() { .. }` of
\* BPeekN::partition on the popped item: the run that starts with first.
partition_run(st, q, first, P) ==
    LET cached == st.next_result # None
        result == IF cached THEN st.next_result[1] ELSE pred(P, first)
    IN  With(scan_run(q, 0, result, P), LAMBDA run :
        With(pop_n(q, run.additional,
                   "Contains at least as many elements as passed the test"), LAMBDA t :
            [st EXCEPT !.queue = t.queue,
                       !.next_result = run.next_result,
                       !.trues = IF result THEN @ \o <<first>> \o t.res ELSE @,
                       !.falses = IF result THEN @ ELSE @ \o <<first>> \o t.res,
                       !.calls = @ \o (IF cached THEN <<>> ELSE <<first>>) \o run.calls,
                       !.panic = t.panic]))

\* while let Some(first) = queue.pop_front() { .. } of BPeekN::partition
RECURSIVE partition_runs(_, _)
partition_runs(st, P) ==
    With(pop_front(st.queue), LAMBDA p :
        IF p.res = None THEN [st EXCEPT !.queue = p.queue]
        ELSE With(partition_run(st, p.queue, p.res[1], P), LAMBDA after :
                 IF after.panic # "" THEN after ELSE partition_runs(after, P)))

\* while !queue.is_empty() { runs; refill of up to N } of BPeekN::partition
RECURSIVE partition_outer(_, _)
partition_outer(st, P) ==
    IF st.panic # "" \/ is_empty(st.queue) THEN st
    ELSE With(partition_runs(st, P), LAMBDA r :
             IF r.panic # "" THEN r
             ELSE With(fill([inner |-> r.inner, queue |-> r.queue], N), LAMBDA f :
                      partition_outer([r EXCEPT !.inner = f.inner, !.queue = f.queue,
                                                !.panic = f.panic], P)))

\* BPeekN::partition: res is <<true_collection, false_collection>>
partition(self, P) ==
    With(fill(self, N - len(self.queue)), LAMBDA f0 :
    With(partition_outer([inner |-> f0.inner, queue |-> f0.queue,
                          next_result |-> None, trues |-> <<>>, falses |-> <<>>,
                          calls |-> <<>>, panic |-> f0.panic], P), LAMBDA st :
        Outcome(st.inner, st.queue, <<st.trues, st.falses>>, st.calls, st.panic)))

\* ensure_elements whose loop pulls two items for each one it buffers.
RECURSIVE ensure_loop_skips(_, _)
ensure_loop_skips(self, k) ==
    IF k = 0 THEN Outcome(self.inner, self.queue, Some(k), <<>>, "")
    ELSE LET i == inner_next(inner_next(self.inner).inner)
         IN  IF i.res = None
             THEN Outcome(i.inner, self.queue, None, <<>>, "")
             ELSE LET p == push_back(self.queue, i.res[1])
                  IN  IF p.status = "Rejected"
                      THEN Outcome(i.inner, p.queue, None, <<>>,
                                   "Dequeue out of capacity, failed to push the element")
                      ELSE ensure_loop_skips([inner |-> i.inner, queue |-> p.queue], k - 1)

\* The loop of ensure_elements running one time too many (0..=k).
RECURSIVE ensure_loop_inclusive(_, _)
ensure_loop_inclusive(self, k) ==
    IF k < 0 THEN Outcome(self.inner, self.queue, Some(0), <<>>, "")
    ELSE LET i == inner_next(self.inner)
         IN  IF i.res = None
             THEN Outcome(i.inner, self.queue, None, <<>>, "")
             ELSE LET p == push_back(self.queue, i.res[1])
                  IN  IF p.status = "Rejected"
                      THEN Outcome(i.inner, p.queue, None, <<>>,
                                   "Dequeue out of capacity, failed to push the element")
                      ELSE ensure_loop_inclusive([inner |-> i.inner, queue |-> p.queue], k - 1)

\* The loop of BPeekN::ensure_elements: k more pushes of inner.next()?, each
\* asserted; `?` leaves with None as soon as the source is exhausted.
RECURSIVE ensure_loop(_, _)
ensure_loop(self, k) ==
    IF k = 0 THEN Outcome(self.inner, self.queue, Some(k), <<>>, "")
    ELSE LET i == inner_next(self.inner)
         IN  IF i.res = None
             THEN Outcome(i.inner, self.queue, None, <<>>, "")
             ELSE LET p == push_back(self.queue, i.res[1])
                  IN  IF p.status = "Rejected"
                      THEN Outcome(i.inner, p.queue, None, <<>>,
                                   "Dequeue out of capacity, failed to push the element")
                      ELSE ensure_loop([inner |-> i.inner, queue |-> p.queue], k - 1)

\* (0..C).map(|i| queue.get(i).expect(msg)).collect(): the first C buffered
\* items, or the panic of the first absent one.
RECURSIVE get_array(_, _, _, _)
get_array(q, i, C, msg) ==
    IF i >= C THEN [res |-> <<>>, panic |-> ""]
    ELSE IF get(q, i) = None THEN [res |-> <<>>, panic |-> msg]
    ELSE LET rest == get_array(q, i + 1, C, msg)
         IN  [res |-> get(q, i) \o rest.res, panic |-> rest.panic]

\* BPeekN::ensure_elements::<C>: Some(the first C buffered items) or None
ensure_elements(self, C) ==
    LET l == IF len(self.queue) < C
             THEN ensure_loop(self, C - len(self.queue))
             ELSE Outcome(self.inner, self.queue, Some(0), <<>>, "")
    IN  IF l.panic # "" \/ l.res = None THEN l
        ELSE LET a == get_array(l.self.queue, 0, C,
                        "Rest of the function proves that this element exists in the buffer")
             IN  Outcome(l.self.inner, l.self.queue,
                         IF a.panic = "" THEN Some(a.res) ELSE None, <<>>, a.panic)

\* bpeek that empties the buffer when the source cannot fill the window.
bpeek_rolls_back(self, Off) ==
    LET e == ensure_elements(self, Off)
    IN  IF e.panic # "" THEN e
        ELSE IF e.res = None
        THEN Outcome(e.self.inner, clear(e.self.queue), None, <<>>, "")
        ELSE Outcome(e.self.inner, e.self.queue, Some(Off), <<>>, "")

\* BPeekN::bpeek::<Off>: Some(cursor of window Off) or None
bpeek(self, Off) ==
    LET e == ensure_elements(self, Off)
    IN  IF e.panic # "" \/ e.res = None THEN e
        ELSE Outcome(e.self.inner, e.self.queue, Some(Off), <<>>, "")

----------------------------------------------------------------------------
(* iterator/mod.rs: PeekCursor<Ind>                                         *)

\* deref that gives the first item of the window.
deref_first(self, Ind) ==
    LET g == get(self.queue, 0)
    IN  Outcome(self.inner, self.queue, g, <<>>,
                IF g = None
                THEN "Should be present, since number of buffered elements is ensured on construction"
                ELSE "")

\* Deref for PeekCursor: queue.get(Ind - 1).expect(..)
deref(self, Ind) ==
    LET g == get(self.queue, Ind - 1)
    IN  Outcome(self.inner, self.queue, g, <<>>,
                IF g = None
                THEN "Should be present, since number of buffered elements is ensured on construction"
                ELSE "")

\* take_all that empties the buffer, whatever the window.
take_all_drains(self, Ind) ==
    LET t == pop_n(self.queue, len(self.queue),
                   "Must be present, number of available elements is ensured statically")
    IN  Outcome(self.inner, t.queue, t.res, <<>>, t.panic)

\* take_all that copies the window out and leaves it buffered.
take_all_copies(self, Ind) ==
    LET a == get_array(self.queue, 0, Ind,
                 "Must be present, number of available elements is ensured statically")
    IN  Outcome(self.inner, self.queue, a.res, <<>>, a.panic)

\* PeekCursor::take_all: Ind times pop_front().expect(..), collected
take_all(self, Ind) ==
    LET t == pop_n(self.queue, Ind,
                   "Must be present, number of available elements is ensured statically")
    IN  Outcome(self.inner, t.queue, t.res, <<>>, t.panic)

\* peek_all that pops the window.
peek_all_popping(self, Ind) ==
    LET t == pop_n(self.queue, Ind,
                   "Must be present, number of available elements is ensured statically")
    IN  Outcome(self.inner, t.queue, t.res, <<>>, t.panic)

\* PeekCursor::peek_all
peek_all(self, Ind) ==
    LET a == get_array(self.queue, 0, Ind,
                 "Must be present, number of available elements is ensured statically")
    IN  Outcome(self.inner, self.queue, a.res, <<>>, a.panic)

\* PeekCursor::peek_prev: the cursor of window Ind - 1 over the same adapter
peek_prev(self, Ind) == Outcome(self.inner, self.queue, Ind - 1, <<>>, "")

\* peek_forward that grows the window although the source gave nothing.
peek_forward_past_end(self, Ind, dbg) ==
    IF len(self.queue) <= Ind
    THEN LET i == inner_next(self.inner)
         IN  IF i.res = None
             THEN Outcome(i.inner, self.queue, [ok |-> TRUE, ind |-> Ind + 1], <<>>, "")
             ELSE Outcome(i.inner, push_back(self.queue, i.res[1]).queue,
                          [ok |-> TRUE, ind |-> Ind + 1], <<>>, "")
    ELSE Outcome(self.inner, self.queue, [ok |-> TRUE, ind |-> Ind + 1], <<>>, "")

\* PeekCursor::peek_forward: res is [ok, ind], Ok(cursor of window Ind + 1) or
\* Err(the cursor of window Ind); dbg tells whether debug_assert_eq! is compiled in
peek_forward(self, Ind, dbg) ==
    LET Done(in, q) ==
            IF dbg /\ len(q) # Ind + 1
            THEN Outcome(in, q, [ok |-> FALSE, ind |-> 0], <<>>,
                         "At this point, buffer should contain enough elements")
            ELSE Outcome(in, q, [ok |-> TRUE, ind |-> Ind + 1], <<>>, "")
    IN  IF len(self.queue) <= Ind
        THEN IF dbg /\ len(self.queue) # Ind
             THEN Outcome(self.inner, self.queue, [ok |-> FALSE, ind |-> 0], <<>>,
                          "At this point, number of buffered elements can only be 1 less")
             ELSE LET i == inner_next(self.inner)
                  IN  IF i.res = None
                      THEN Outcome(i.inner, self.queue, [ok |-> FALSE, ind |-> Ind], <<>>, "")
                      ELSE LET p == push_back(self.queue, i.res[1])
                           IN  IF p.status = "Rejected"
                               THEN Outcome(i.inner, p.queue, [ok |-> FALSE, ind |-> 0], <<>>,
                                            "Dequeue out of capacity, failed to push the element")
                               ELSE Done(i.inner, p.queue)
        ELSE Done(self.inner, self.queue)

----------------------------------------------------------------------------
(* The state machine.                                                       *)

Range(a, b) == [i \in 1..(b - a + 1) |-> a + i - 1]

Reverse(s) == [i \in 1..Len(s) |-> s[Len(s) + 1 - i]]

Remaining(self) == Contents(self.queue) \o self.inner

Self == [inner |-> inner, queue |-> queue]

Record(op, arg, o) ==
    [op |-> op, arg |-> arg, pre |-> Self, res |-> o.res, calls |-> o.calls]

Init ==
    /\ N \in 1..MaxN
    /\ debug_assertions \in BOOLEAN
    /\ \E k \in 0..MaxSrc : original = Range(1, k)
    /\ inner = original
    /\ queue = new
    /\ cursor = 0
    /\ alive = TRUE
    /\ taken = <<>>
    /\ takenBack = <<>>
    /\ hist = [op |-> "bpeekable", arg |-> None,
               pre |-> [inner |-> original, queue |-> new],
               res |-> None, calls |-> <<>>]
    /\ panic = ""

\* The adapter can be called: it exists, no cursor borrows it, nothing panicked.
Free == alive /\ cursor = 0 /\ panic = ""

Next_ ==
    /\ Free
    /\ LET o == next(Self)
       IN  /\ inner' = o.self.inner
           /\ queue' = o.self.queue
           /\ taken' = taken \o o.res
           /\ hist' = Record("next", None, o)
    /\ UNCHANGED <<N, debug_assertions, original, cursor, alive, takenBack, panic>>

NextBack ==
    /\ Free
    /\ LET o == next_back(Self)
       IN  /\ inner' = o.self.inner
           /\ queue' = o.self.queue
           /\ takenBack' = takenBack \o o.res
           /\ hist' = Record("next_back", None, o)
    /\ UNCHANGED <<N, debug_assertions, original, cursor, alive, taken, panic>>

\* A cursor is live: it borrows the adapter exclusively.
Borrowed == alive /\ cursor > 0 /\ panic = ""

\* iter.bpeek::<Off>(), 1 <= Off <= N by the bounds Off: Sub<U1>, N: Sub<Off>
BPeek ==
    /\ Free
    /\ \E Off \in 1..N :
         LET o == bpeek(Self, Off)
         IN  /\ inner' = o.self.inner
             /\ queue' = o.self.queue
             /\ cursor' = IF o.panic = "" /\ o.res # None THEN o.res[1] ELSE 0
             /\ panic' = o.panic
             /\ hist' = Record("bpeek", Off, o)
    /\ UNCHANGED <<N, debug_assertions, original, alive, taken, takenBack>>

\* *cursor
Deref ==
    /\ Borrowed
    /\ LET o == deref(Self, cursor)
       IN  /\ panic' = o.panic
           /\ cursor' = IF o.panic = "" THEN cursor ELSE 0
           /\ inner' = o.self.inner
           /\ queue' = o.self.queue
           /\ hist' = Record("deref", cursor, o)
    /\ UNCHANGED <<N, debug_assertions, original, alive, taken, takenBack>>

\* cursor.peek_all()
PeekAll ==
    /\ Borrowed
    /\ LET o == peek_all(Self, cursor)
       IN  /\ panic' = o.panic
           /\ cursor' = IF o.panic = "" THEN cursor ELSE 0
           /\ inner' = o.self.inner
           /\ queue' = o.self.queue
           /\ hist' = Record("peek_all", cursor, o)
    /\ UNCHANGED <<N, debug_assertions, original, alive, taken, takenBack>>

\* cursor.take_all(): consumes the cursor
TakeAll ==
    /\ Borrowed
    /\ LET o == take_all(Self, cursor)
       IN  /\ inner' = o.self.inner
           /\ queue' = o.self.queue
           /\ taken' = taken \o o.res
           /\ panic' = o.panic
           /\ hist' = Record("take_all", cursor, o)
    /\ cursor' = 0
    /\ UNCHANGED <<N, debug_assertions, original, alive, takenBack>>

\* cursor.peek_prev(), Ind - 1 >= 1 by the bound <Ind as Sub<U1>>::Output: Sub<U1>
PeekPrev ==
    /\ Borrowed
    /\ cursor - 1 >= 1
    /\ LET o == peek_prev(Self, cursor)
       IN  /\ cursor' = o.res
           /\ inner' = o.self.inner
           /\ queue' = o.self.queue
           /\ hist' = Record("peek_prev", cursor, o)
    /\ UNCHANGED <<N, debug_assertions, original, alive, taken, takenBack,
                   panic>>

\* cursor.peek_forward(), Ind + 1 <= N by the bound N: Sub<<Ind as Add<U1>>::Output>
PeekForward ==
    /\ Borrowed
    /\ cursor + 1 <= N
    /\ LET o == peek_forward(Self, cursor, debug_assertions)
       IN  /\ inner' = o.self.inner
           /\ queue' = o.self.queue
           /\ cursor' = o.res.ind
           /\ panic' = o.panic
           /\ hist' = Record("peek_forward", cursor, o)
    /\ UNCHANGED <<N, debug_assertions, original, alive, taken, takenBack>>

\* The cursor goes out of scope: PeekCursor has no Drop, nothing is rolled back.
DropCursor ==
    /\ Borrowed
    /\ cursor' = 0
    /\ hist' = [op |-> "drop_cursor", arg |-> cursor, pre |-> Self,
                res |-> None, calls |-> <<>>]
    /\ UNCHANGED <<N, debug_assertions, original, inner, queue, alive, taken,
                   takenBack, panic>>

\* The items an operation took from the front of the remaining sequence.
Consumed(o) ==
    SubSeq(Remaining(Self), 1, Len(Remaining(Self)) - Len(Remaining(o.self)))

\* The state after an operation on the adapter itself; `consumes` tells that
\* the operation takes the adapter by value.
Step(op, arg, o, consumes) ==
    /\ inner' = o.self.inner
    /\ queue' = o.self.queue
    /\ panic' = o.panic
    /\ alive' = ~consumes
    /\ taken' = IF consumes THEN taken ELSE taken \o Consumed(o)
    /\ hist' = Record(op, arg, o)
    /\ UNCHANGED <<N, debug_assertions, original, cursor, takenBack>>

\* The predicates a caller can pass, told apart by the items still to come.
Preds == SUBSET {Remaining(Self)[i] : i \in 1..Len(Remaining(Self))}

SizeHint == Free /\ Step("size_hint", None, size_hint(Self), FALSE)

Nth == Free /\ \E n \in 0..(N + 1) : Step("nth", n, nth(Self, n), FALSE)

All == Free /\ \E P \in Preds : Step("all", P, all(Self, P), FALSE)

Any_ == Free /\ \E P \in Preds : Step("any", P, any(Self, P), FALSE)

Find == Free /\ \E P \in Preds : Step("find", P, find(Self, P), FALSE)

FindMap == Free /\ \E P \in Preds : Step("find_map", P, find_map(Self, P), FALSE)

Position == Free /\ \E P \in Preds : Step("position", P, position(Self, P), FALSE)

Count == Free /\ Step("count", None, count(Self), TRUE)

Last == Free /\ Step("last", None, last(Self), TRUE)

ForEach == Free /\ Step("for_each", None, for_each(Self), TRUE)

Collect == Free /\ Step("collect", None, collect(Self), TRUE)

Fold == Free /\ \E init \in 0..1 : Step("fold", init, fold(Self, init), TRUE)

Reduce == Free /\ Step("reduce", None, reduce(Self), TRUE)

Partition == Free /\ \E P \in Preds : Step("partition", P, partition(Self, P), TRUE)

Next ==
    \/ Next_
    \/ NextBack
    \/ BPeek
    \/ Deref
    \/ PeekAll
    \/ TakeAll
    \/ PeekPrev
    \/ PeekForward
    \/ DropCursor
    \/ SizeHint
    \/ Nth
    \/ All
    \/ Any_
    \/ Find
    \/ FindMap
    \/ Position
    \/ Count
    \/ Last
    \/ ForEach
    \/ Collect
    \/ Fold
    \/ Reduce
    \/ Partition

Spec == Init /\ [][Next]_vars

\* The calls the peek scenario is made of: next and the cursor protocol.
NextCursor ==
    \/ Next_
    \/ BPeek
    \/ Deref
    \/ PeekAll
    \/ TakeAll
    \/ PeekPrev
    \/ PeekForward
    \/ DropCursor

SpecCursor == Init /\ [][NextCursor]_vars

----------------------------------------------------------------------------
(* The Dequeue on its own, driven as dequeue/tests.rs ops_test drives it.   *)
(* hist.pre is the Dequeue before the call.                                 *)

RecordDq(op, arg, res, dropped) ==
    [op |-> op, arg |-> arg, pre |-> queue, res |-> res,
     dropped |-> dropped, calls |-> <<>>]

\* What the slots that clear walks over hold, in the order it drops them.
Dropped(q) == [k \in DOMAIN clear_slots(q) |-> q.data[clear_slots(q)[k]]]

InitDq ==
    /\ N \in 1..MaxN
    /\ debug_assertions \in BOOLEAN
    /\ original = <<>>
    /\ inner = <<>>
    /\ queue = new
    /\ cursor = 0
    /\ alive = TRUE
    /\ taken = <<>>
    /\ takenBack = <<>>
    /\ hist = [op |-> "new", arg |-> None, pre |-> new, res |-> None,
               dropped |-> <<>>, calls |-> <<>>]
    /\ panic = ""

\* The buffer exists and nothing panicked.
Live == alive /\ panic = ""

\* dequeue = Dequeue::new(): the assignment drops the buffer it replaces
New ==
    /\ panic = ""
    /\ queue' = new
    /\ alive' = TRUE
    /\ hist' = RecordDq("new", None, None,
                        IF alive THEN Dropped(queue) ELSE <<>>)
    /\ UNCHANGED <<N, debug_assertions, original, inner, cursor, taken,
                   takenBack, panic>>

PushBack ==
    /\ Live
    /\ \E item \in 1..MaxItem :
        LET o == push_back(queue, item)
        IN  /\ queue' = o.queue
            /\ hist' = RecordDq("push_back", item,
                                [status |-> o.status, item |-> o.item], <<>>)
            /\ UNCHANGED <<N, debug_assertions, original, inner, cursor,
                           alive, taken, takenBack, panic>>

PushFront ==
    /\ Live
    /\ \E item \in 1..MaxItem :
        LET o == push_front(queue, item)
        IN  /\ queue' = o.queue
            /\ hist' = RecordDq("push_front", item,
                                [status |-> o.status, item |-> o.item], <<>>)
            /\ UNCHANGED <<N, debug_assertions, original, inner, cursor,
                           alive, taken, takenBack, panic>>

PushBackOverwrite ==
    /\ Live
    /\ \E item \in 1..MaxItem :
        LET o == push_back_overwrite(queue, item)
        IN  /\ queue' = o.queue
            /\ hist' = RecordDq("push_back_overwrite", item, o.dropped,
                                o.dropped)
            /\ UNCHANGED <<N, debug_assertions, original, inner, cursor,
                           alive, taken, takenBack, panic>>

PushFrontOverwrite ==
    /\ Live
    /\ \E item \in 1..MaxItem :
        LET o == push_front_overwrite(queue, item)
        IN  /\ queue' = o.queue
            /\ hist' = RecordDq("push_front_overwrite", item, o.dropped,
                                o.dropped)
            /\ UNCHANGED <<N, debug_assertions, original, inner, cursor,
                           alive, taken, takenBack, panic>>

PopBack ==
    /\ Live
    /\ LET o == pop_back(queue)
       IN  /\ queue' = o.queue
           /\ hist' = RecordDq("pop_back", None, o.res, <<>>)
           /\ UNCHANGED <<N, debug_assertions, original, inner, cursor, alive,
                          taken, takenBack, panic>>

PopFront ==
    /\ Live
    /\ LET o == pop_front(queue)
       IN  /\ queue' = o.queue
           /\ hist' = RecordDq("pop_front", None, o.res, <<>>)
           /\ UNCHANGED <<N, debug_assertions, original, inner, cursor, alive,
                          taken, takenBack, panic>>

Get ==
    /\ Live
    /\ \E i \in 0..N :
        /\ hist' = RecordDq("get", i, get(queue, i), <<>>)
        /\ UNCHANGED <<N, debug_assertions, original, inner, queue, cursor,
                       alive, taken, takenBack, panic>>

\* get_mut, and what the caller may do with the reference: nothing, or store
\* another item through it, which drops the item that was there.
GetMut ==
    /\ Live
    /\ \E i \in 0..N, w \in {None} \cup {Some(x) : x \in 1..MaxItem} :
        LET r == get_mut(queue, i)
            stores == r # None /\ w # None
        IN  /\ queue' = IF stores THEN [queue EXCEPT !.data[r[1]] = w[1]]
                        ELSE queue
            /\ hist' = RecordDq("get_mut", <<i, w>>, r,
                                IF stores THEN <<queue.data[r[1]]>> ELSE <<>>)
            /\ UNCHANGED <<N, debug_assertions, original, inner, cursor,
                           alive, taken, takenBack, panic>>

\* dequeue[i]
Index ==
    /\ Live
    /\ \E i \in 0..N :
        LET o == index(queue, i)
        IN  /\ panic' = o.panic
            /\ hist' = RecordDq("index", i, o.res, <<>>)
            /\ UNCHANGED <<N, debug_assertions, original, inner, queue,
                           cursor, alive, taken, takenBack>>

\* &mut dequeue[i], read or assigned to
IndexMut ==
    /\ Live
    /\ \E i \in 0..N, w \in {None} \cup {Some(x) : x \in 1..MaxItem} :
        LET o == index_mut(queue, i)
            stores == o.res # None /\ w # None
        IN  /\ panic' = o.panic
            /\ queue' = IF stores
                        THEN [queue EXCEPT !.data[o.res[1]] = w[1]]
                        ELSE queue
            /\ hist' = RecordDq("index_mut", <<i, w>>, o.res,
                                IF stores THEN <<queue.data[o.res[1]]>>
                                ELSE <<>>)
            /\ UNCHANGED <<N, debug_assertions, original, inner, cursor,
                           alive, taken, takenBack>>

\* len() and is_empty()
Length ==
    /\ Live
    /\ hist' = RecordDq("len", None,
                        [len |-> len(queue), is_empty |-> is_empty(queue)],
                        <<>>)
    /\ UNCHANGED <<N, debug_assertions, original, inner, queue, cursor,
                   alive, taken, takenBack, panic>>

Clear ==
    /\ Live
    /\ queue' = clear(queue)
    /\ hist' = RecordDq("clear", None, None, Dropped(queue))
    /\ UNCHANGED <<N, debug_assertions, original, inner, cursor, alive,
                   taken, takenBack, panic>>

\* dequeue = dequeue.clone(): the clone is built, then the assignment drops the
\* buffer it was made from
Clone ==
    /\ Live
    /\ queue' = clone(queue)
    /\ hist' = RecordDq("clone", None, None, Dropped(queue))
    /\ UNCHANGED <<N, debug_assertions, original, inner, cursor, alive,
                   taken, takenBack, panic>>

\* The buffer goes out of scope.
Drop ==
    /\ Live
    /\ queue' = drop(queue)
    /\ alive' = FALSE
    /\ hist' = RecordDq("drop", None, None, Dropped(queue))
    /\ UNCHANGED <<N, debug_assertions, original, inner, cursor, taken,
                   takenBack, panic>>

NextDq ==
    \/ New
    \/ PushBack
    \/ PushFront
    \/ PushBackOverwrite
    \/ PushFrontOverwrite
    \/ PopBack
    \/ PopFront
    \/ Get
    \/ GetMut
    \/ Index
    \/ IndexMut
    \/ Length
    \/ Clear
    \/ Clone
    \/ Drop

SpecDq == InitDq /\ [][NextDq]_vars

----------------------------------------------------------------------------
(* Properties.                                                              *)

\* C1: after any sequence of next, bpeek, peek_forward, peek_prev, peek_all,
\* take_all and discarded cursors, the items returned so far, then the buffer
\* front to back, then what the source has left, are the source's full output
\* in order; discarding a cursor changes neither the buffer nor the source.
SequenceInvariant ==
    /\ taken \o Contents(queue) \o inner = original
    /\ hist.op = "drop_cursor" => Self = hist.pre

\* C1 witness: a cursor was discarded with items returned, two items buffered
\* and items left in the source.
SequenceWitness ==
    /\ hist.op = "drop_cursor"
    /\ taken # <<>>
    /\ Len(Contents(queue)) >= 2
    /\ inner # <<>>

\* C2: next() returns the front of a non-empty buffer, removes that item alone
\* and leaves the source untouched; with an empty buffer it advances the
\* source by one item (by none when the source is exhausted).
NextContract ==
    hist.op = "next" =>
        LET b == Contents(hist.pre.queue)
            s == hist.pre.inner
        IN  /\ b # <<>> =>
                /\ hist.res = Some(Head(b))
                /\ Contents(queue) = Tail(b)
                /\ inner = s
            /\ b = <<>> /\ s # <<>> =>
                /\ hist.res = Some(Head(s))
                /\ Contents(queue) = <<>>
                /\ inner = Tail(s)
            /\ b = <<>> /\ s = <<>> =>
                /\ hist.res = None
                /\ Contents(queue) = <<>>
                /\ inner = <<>>

\* C2 witness: next() was called with two items buffered and the source not
\* exhausted.
NextWitness ==
    /\ hist.op = "next"
    /\ Len(Contents(hist.pre.queue)) >= 2
    /\ hist.pre.inner # <<>>

\* C3: each next() and next_back(), whatever the buffer holds, returns what the
\* unbuffered double-ended source returns at the same position and leaves the
\* same items; next_back leaves the buffer alone until the source is exhausted.
DoubleEndedRefinement ==
    /\ hist.op = "next" =>
        /\ hist.res = inner_next(Remaining(hist.pre)).res
        /\ Remaining(Self) = inner_next(Remaining(hist.pre)).inner
    /\ hist.op = "next_back" =>
        /\ hist.res = inner_next_back(Remaining(hist.pre)).res
        /\ Remaining(Self) = inner_next_back(Remaining(hist.pre)).inner
        /\ hist.pre.inner # <<>> => Contents(queue) = Contents(hist.pre.queue)
    /\ Free => taken \o Remaining(Self) \o Reverse(takenBack) = original

\* C3 witness: next_back() took from the back of the buffer, the source being
\* exhausted by earlier next_back() calls, after next() had returned items.
DoubleEndedWitness ==
    /\ hist.op = "next_back"
    /\ hist.pre.inner = <<>>
    /\ Len(Contents(hist.pre.queue)) >= 2
    /\ Len(takenBack) >= 2
    /\ taken # <<>>
    /\ hist.res = Some(hist.pre.queue.data[add(hist.pre.queue.start, hist.pre.queue.len - 1)])
\* C4: nth(n) returns the item at index n of the remaining sequence (buffer,
\* then source), or absence when fewer than n + 1 items remain, and consumes
\* the first n + 1 remaining items: as nth(n) of the unbuffered source does.
NthRefinement ==
    hist.op = "nth" =>
        /\ panic = ""
        /\ hist.res = inner_nth(Remaining(hist.pre), hist.arg).res
        /\ Remaining(Self) = inner_nth(Remaining(hist.pre), hist.arg).inner

\* C5: with b items buffered and r left in an exact-size source, size_hint()
\* is (b + r, Some(b + r)) and count() is b + r; bpeek, peek_forward and
\* peek_prev change neither value.
SizeContract ==
    LET b == Len(Contents(hist.pre.queue))
        r == Len(hist.pre.inner)
    IN  /\ hist.op = "size_hint" => hist.res = <<b + r, Some(b + r)>>
        /\ hist.op = "count" => hist.res = b + r
        /\ hist.op \in {"bpeek", "peek_forward", "peek_prev"} =>
            /\ size_hint(Self).res = size_hint(hist.pre).res
            /\ count(Self).res = count(hist.pre).res
            /\ count(Self).res = b + r

\* C5 witness: count() was called with two items buffered and items left in
\* the source.
SizeWitness ==
    /\ hist.op = "count"
    /\ Len(Contents(hist.pre.queue)) >= 2
    /\ hist.pre.inner # <<>>

\* C6: last() returns the last item of buffer then source: the source's last
\* item when it has one, else the back of the buffer, else absence; as last()
\* of the unbuffered source does.
LastContract ==
    hist.op = "last" =>
        LET b == Contents(hist.pre.queue)
            s == hist.pre.inner
        IN  /\ hist.res = inner_last(Remaining(hist.pre)).res
            /\ s # <<>> => hist.res = Some(s[Len(s)])
            /\ s = <<>> /\ b # <<>> => hist.res = Some(b[Len(b)])
            /\ s = <<>> /\ b = <<>> => hist.res = None

\* C6 witness: last() was called with items in the source and two items
\* buffered.
LastWitness ==
    /\ hist.op = "last"
    /\ hist.pre.inner # <<>>
    /\ Len(Contents(hist.pre.queue)) >= 2

\* C7: for_each, fold, reduce and collect visit every remaining item once, the
\* buffer front to back and then the source; the result is that of the same
\* operation on the unbuffered source, and reduce returns absence only when
\* nothing remains.
BulkVisit ==
    LET rem == Remaining(hist.pre)
    IN  /\ hist.op = "for_each" => hist.calls = rem
        /\ hist.op = "collect" => hist.res = rem
        /\ hist.op = "fold" =>
            /\ hist.res = inner_fold(rem, hist.arg)
            /\ hist.calls = rem
        /\ hist.op = "reduce" =>
            /\ hist.res = inner_reduce(rem)
            /\ hist.res = None <=> rem = <<>>

\* C7 witness: reduce() was called with two items buffered and two left in the
\* source.
BulkWitness ==
    /\ hist.op = "reduce"
    /\ Len(Contents(hist.pre.queue)) >= 2
    /\ Len(hist.pre.inner) >= 2

\* What the source's own method gives on the remaining sequence.
Unbuffered(op, rem, P) ==
    CASE op = "all" -> inner_all(rem, P)
      [] op = "any" -> inner_any(rem, P)
      [] op = "find" -> inner_find(rem, P)
      [] op = "find_map" -> inner_find_map(rem, P)
      [] op = "position" -> inner_position(rem, P)

\* C8: all, any, find, find_map and position examine the remaining items in
\* order, apply the predicate once per item up to the deciding one, return
\* what the unbuffered source returns and leave the items after the deciding
\* one.
ShortCircuit ==
    hist.op \in {"all", "any", "find", "find_map", "position"} =>
        LET ref == Unbuffered(hist.op, Remaining(hist.pre), hist.arg)
        IN  /\ hist.res = ref.res
            /\ hist.calls = ref.calls
            /\ Remaining(Self) = ref.inner

\* C8 witness: position() found its item in the source, past two buffered
\* items, with items left after it.
ShortCircuitWitness ==
    /\ hist.op = "position"
    /\ Len(Contents(hist.pre.queue)) >= 2
    /\ hist.res # None
    /\ hist.res[1] >= Len(Contents(hist.pre.queue))
    /\ Remaining(Self) # <<>>

\* C9: partition(f) ends without a rejected push, with buffer and source
\* exhausted, and returns the remaining items that satisfy f and those that do
\* not, each in their original order.
PartitionContract ==
    hist.op = "partition" =>
        LET rem == Remaining(hist.pre)
            yes(x) == pred(hist.arg, x)
            no(x) == ~pred(hist.arg, x)
        IN  /\ panic = ""
            /\ hist.res = <<SelectSeq(rem, yes), SelectSeq(rem, no)>>
            /\ Contents(queue) = <<>>
            /\ inner = <<>>

\* C9 witness: partition() was called with an item buffered and more left in
\* the source than a refill takes, and both collections received items.
PartitionWitness ==
    /\ hist.op = "partition"
    /\ Contents(hist.pre.queue) # <<>>
    /\ Len(hist.pre.inner) > N
    /\ Len(hist.res[1]) >= 2
    /\ Len(hist.res[2]) >= 2

\* C10: while a cursor of window Ind exists the buffer holds at least Ind
\* items, the window is the first Ind buffered items, and Deref, peek_all and
\* take_all find every item they expect.
CursorInvariant ==
    /\ cursor > 0 =>
        /\ len(queue) >= cursor
        /\ peek_all(Self, cursor).res = SubSeq(Contents(queue), 1, cursor)
        /\ deref(Self, cursor).panic = ""
        /\ peek_all(Self, cursor).panic = ""
        /\ take_all(Self, cursor).panic = ""
    /\ panic \notin
        {"Should be present, since number of buffered elements is ensured on construction",
         "Must be present, number of available elements is ensured statically"}

\* C10 witness: a cursor of window 2 obtained by peek_prev, on which take_all
\* has then returned two items.
CursorWitness ==
    /\ hist.op = "take_all"
    /\ hist.arg = 2
    /\ Len(hist.res) = 2
    /\ Len(Contents(hist.pre.queue)) = 3
\* C11: bpeek<K> with b items buffered pulls max(0, K - b) items when the
\* source has them, appends them at the back in source order and yields a
\* cursor; otherwise it yields absence with every item the source still had
\* appended to the buffer, and a later bpeek<J>, J not above the number of
\* items left, succeeds and exposes them in order.
BPeekContract ==
    hist.op = "bpeek" =>
        LET K    == hist.arg
            b    == Contents(hist.pre.queue)
            s    == hist.pre.inner
            need == IF K > Len(b) THEN K - Len(b) ELSE 0
        IN  /\ panic = ""
            /\ Len(s) >= need =>
                /\ hist.res = Some(K)
                /\ cursor = K
                /\ Contents(queue) = b \o SubSeq(s, 1, need)
                /\ inner = SubSeq(s, need + 1, Len(s))
            /\ Len(s) < need =>
                /\ hist.res = None
                /\ cursor = 0
                /\ Contents(queue) = b \o s
                /\ inner = <<>>
                /\ \A J \in 1..N :
                     J <= Len(b \o s) =>
                        /\ bpeek(Self, J).res = Some(J)
                        /\ peek_all(bpeek(Self, J).self, J).res = SubSeq(b \o s, 1, J)

\* C11 witness: bpeek<3> reported absence after it moved the source's last
\* item behind the one already buffered.
BPeekWitness ==
    /\ hist.op = "bpeek"
    /\ hist.arg = 3
    /\ hist.res = None
    /\ Len(Contents(hist.pre.queue)) = 1
    /\ Len(hist.pre.inner) = 1
    /\ Len(Contents(queue)) = 2

\* C12: peek_forward on a cursor of window Ind succeeds without pulling when
\* the buffer holds at least Ind + 1 items, else pulls one item, appends it
\* and succeeds, and with the source exhausted returns the cursor of window
\* Ind with buffer and source unchanged.
PeekForwardContract ==
    hist.op = "peek_forward" =>
        LET Ind == hist.arg
            b   == Contents(hist.pre.queue)
            s   == hist.pre.inner
        IN  /\ panic = ""
            /\ Len(b) >= Ind + 1 =>
                /\ hist.res = [ok |-> TRUE, ind |-> Ind + 1]
                /\ Self = hist.pre
            /\ Len(b) < Ind + 1 /\ s # <<>> =>
                /\ hist.res = [ok |-> TRUE, ind |-> Ind + 1]
                /\ Contents(queue) = b \o <<Head(s)>>
                /\ inner = Tail(s)
            /\ Len(b) < Ind + 1 /\ s = <<>> =>
                /\ hist.res = [ok |-> FALSE, ind |-> Ind]
                /\ Self = hist.pre
            /\ cursor = hist.res.ind

\* C13: take_all on a cursor of window Ind returns the first Ind buffered
\* items in order and removes them alone; the other buffered items stay in
\* order and the source is not advanced.
TakeAllContract ==
    hist.op = "take_all" =>
        LET Ind == hist.arg
            b   == Contents(hist.pre.queue)
        IN  /\ panic = ""
            /\ hist.res = SubSeq(b, 1, Ind)
            /\ Contents(queue) = SubSeq(b, Ind + 1, Len(b))
            /\ inner = hist.pre.inner
            /\ cursor = 0

\* C13 witness: take_all on a window of 1 over three buffered items.
TakeAllWitness ==
    /\ hist.op = "take_all"
    /\ hist.arg = 1
    /\ Len(Contents(hist.pre.queue)) = 3
    /\ Len(Contents(queue)) = 2
    /\ hist.pre.inner # <<>>

\* C14: peek_all returns the first Ind buffered items in order, peek_prev
\* yields the cursor of window Ind - 1, and both leave buffer and source as
\* they were.
PeekFrame ==
    /\ hist.op = "peek_all" =>
        /\ panic = ""
        /\ hist.res = SubSeq(Contents(hist.pre.queue), 1, hist.arg)
        /\ Self = hist.pre
        /\ cursor = hist.arg
    /\ hist.op = "peek_prev" =>
        /\ panic = ""
        /\ hist.res = hist.arg - 1
        /\ cursor = hist.arg - 1
        /\ Self = hist.pre

\* C14 witness: peek_all on the window of 2 that peek_prev left over three
\* buffered items.
PeekFrameWitness ==
    /\ hist.op = "peek_all"
    /\ hist.arg = 2
    /\ Len(hist.res) = 2
    /\ Len(Contents(queue)) = 3

\* C15: the buffer never holds more than N items and no push of bpeek or
\* peek_forward is rejected.
CapacityRespected ==
    /\ len(queue) <= N
    /\ Len(Contents(queue)) <= N
    /\ panic # "Dequeue out of capacity, failed to push the element"

\* C15 witness: peek_forward pushed the item that filled the buffer.
CapacityWitness ==
    /\ hist.op = "peek_forward"
    /\ hist.res.ok
    /\ len(hist.pre.queue) = N - 1
    /\ len(queue) = N
    /\ N >= 2

\* The items of a sequence.
Items(s) == {s[i] : i \in 1..Len(s)}

\* C16: once the source is exhausted and the buffer empty, next() and bpeek
\* report absence and leave both so; an item returned by next() or take_all()
\* is not returned again and is no longer buffered or in the source.
AbsencePermanent ==
    /\ hist.op \in {"next", "bpeek"} /\ Remaining(hist.pre) = <<>> =>
        /\ hist.res = None
        /\ Remaining(Self) = <<>>
        /\ cursor = 0
    /\ \A i, j \in 1..Len(taken) : taken[i] = taken[j] => i = j
    /\ Items(taken) \cap Items(Remaining(Self)) = {}

\* C16 witness: bpeek reported absence once take_all and next had returned
\* every item of a source of at least three.
AbsenceWitness ==
    /\ hist.op = "bpeek"
    /\ hist.res = None
    /\ Remaining(hist.pre) = <<>>
    /\ taken = original
    /\ Len(original) >= 3

----------------------------------------------------------------------------
(* Properties of the bare Dequeue, checked under SpecDq.                    *)

\* The pushes of ops, in order: each is <<"back" or "front", item>>.  ok stays
\* TRUE while every push returned Success.
RECURSIVE PushEach(_, _)
PushEach(q, ops) ==
    IF ops = <<>> THEN [queue |-> q, ok |-> TRUE]
    ELSE LET o == IF Head(ops)[1] = "back" THEN push_back(q, Head(ops)[2])
                  ELSE push_front(q, Head(ops)[2])
             r == PushEach(o.queue, Tail(ops))
         IN  [queue |-> r.queue, ok |-> o.status = "Success" /\ r.ok]

\* The results of k pops at one end ("back" or "front"), in order.
RECURSIVE PopEach(_, _, _)
PopEach(q, k, end) ==
    IF k = 0 THEN <<>>
    ELSE LET o == IF end = "back" THEN pop_back(q) ELSE pop_front(q)
         IN  <<o.res>> \o PopEach(o.queue, k - 1, end)

\* C17: a push_back or push_front on a buffer below capacity succeeds and
\* lengthens it by one, so that from an empty buffer every mix of N pushes
\* succeeds; on a full buffer it returns Rejected with exactly the item passed
\* in and leaves data, start and len as they were.
CapacityRejection ==
    /\ hist.op \in {"push_back", "push_front"} =>
           /\ len(hist.pre) < N =>
                  /\ hist.res = [status |-> "Success", item |-> None]
                  /\ len(queue) = len(hist.pre) + 1
           /\ len(hist.pre) = N =>
                  /\ hist.res = [status |-> "Rejected",
                                 item |-> Some(hist.arg)]
                  /\ queue = hist.pre
    /\ is_empty(queue) =>
           \A ops \in [1..N -> {"back", "front"} \X (1..MaxItem)] :
               /\ PushEach(queue, ops).ok
               /\ len(PushEach(queue, ops).queue) = N

CapacityRejectionWitness ==
    /\ hist.op = "push_front"
    /\ hist.res.status = "Rejected"
    /\ hist.pre.start # 0
    /\ N >= 2

\* C18: on a full buffer [e0 .. e(N-1)] push_back_overwrite(x) drops e0 and
\* leaves [e1 .. e(N-1), x], push_front_overwrite(x) drops e(N-1) and leaves
\* [x, e0 .. e(N-2)], the length staying N; below capacity they leave the
\* buffer exactly as push_back and push_front do.
OverwriteContract ==
    LET c == Contents(hist.pre)
        x == hist.arg
    IN  /\ hist.op = "push_back_overwrite" =>
               IF len(hist.pre) = N
               THEN /\ Contents(queue) = Tail(c) \o <<x>>
                    /\ len(queue) = N
                    /\ hist.res = Some(Head(c))
               ELSE /\ queue = push_back(hist.pre, x).queue
                    /\ Contents(queue) = c \o <<x>>
                    /\ hist.res = None
        /\ hist.op = "push_front_overwrite" =>
               IF len(hist.pre) = N
               THEN /\ Contents(queue) = <<x>> \o SubSeq(c, 1, N - 1)
                    /\ len(queue) = N
                    /\ hist.res = Some(c[N])
               ELSE /\ queue = push_front(hist.pre, x).queue
                    /\ Contents(queue) = <<x>> \o c
                    /\ hist.res = None

OverwriteWitness ==
    /\ hist.op = "push_back_overwrite"
    /\ len(hist.pre) = N
    /\ hist.pre.start # 0
    /\ N >= 3
    /\ hist.arg # Contents(hist.pre)[1]

\* C19: on an empty buffer, wherever its start is, k <= N items pushed with
\* push_back come back in push order from k pop_front calls and in reverse
\* order from k pop_back calls; items pushed with push_front come back in push
\* order from pop_back and reversed from pop_front.
FifoLifo ==
    is_empty(queue) =>
        \A k \in 0..N : \A xs \in [1..k -> 1..MaxItem] :
            LET backs   == PushEach(queue, [i \in 1..k |-> <<"back", xs[i]>>])
                fronts  == PushEach(queue, [i \in 1..k |-> <<"front", xs[i]>>])
                inOrder == [i \in 1..k |-> Some(xs[i])]
            IN  /\ backs.ok /\ fronts.ok
                /\ PopEach(backs.queue, k, "front") = inOrder
                /\ PopEach(backs.queue, k, "back") = Reverse(inOrder)
                /\ PopEach(fronts.queue, k, "back") = inOrder
                /\ PopEach(fronts.queue, k, "front") = Reverse(inOrder)

FifoLifoWitness ==
    /\ is_empty(queue)
    /\ queue.start = N - 1
    /\ N >= 3
    /\ hist.op = "pop_back"
    /\ hist.res # None

\* C20: in every state reached through new, the four pushes, the two pops,
\* get, get_mut, clear and clone, len() is within 0..N and counts the occupied
\* slots, is_empty() holds exactly when len() is 0, a successful push_back or
\* push_front raises len() by one and a successful pop lowers it by one.
LenInvariant ==
    /\ len(queue) \in 0..N
    /\ len(queue) = Cardinality({i \in 0..(N - 1) : queue.data[i] # Vacant})
    /\ is_empty(queue) <=> len(queue) = 0
    /\ hist.op \in {"push_back", "push_front"}
           /\ hist.res.status = "Success" => len(queue) = len(hist.pre) + 1
    /\ hist.op \in {"pop_back", "pop_front"} /\ hist.res # None =>
           len(queue) = len(hist.pre) - 1
    /\ hist.op \in {"get", "get_mut", "len"} => len(queue) = len(hist.pre)

LenWitness ==
    /\ hist.op = "pop_front"
    /\ hist.res # None
    /\ len(hist.pre) = N
    /\ len(queue) = N - 1
    /\ hist.pre.start # 0
    /\ N >= 2

Occupied(q) == {p \in 0..(N - 1) : q.data[p] # Vacant}

\* C21: in every reachable state of the ring buffer start is within 0..N-1,
\* the occupied slots are exactly {(start + i) mod N : i < len}, logical index
\* i is read from slot (start + i) mod N, distinct logical indices have
\* distinct slots, and the wrapping addition stays below N.
LayoutInvariant ==
    /\ queue.start \in 0..(N - 1)
    /\ Occupied(queue) = {(queue.start + i) % N : i \in 0..(queue.len - 1)}
    /\ \A i \in 0..(queue.len - 1) :
           /\ read_at_mut(queue, i) = (queue.start + i) % N
           /\ get(queue, i) = Some(queue.data[(queue.start + i) % N])
    /\ \A i, j \in 0..(queue.len - 1) :
           i # j => read_at_mut(queue, i) # read_at_mut(queue, j)
    /\ \A b \in 0..N :
           /\ add(queue.start, b) < N
           /\ add(queue.start, b) = (queue.start + b) % N

LayoutWitness ==
    /\ N >= 3
    /\ queue.len = N
    /\ queue.start = N - 1
    /\ hist.op = "push_front"
    /\ hist.res.status = "Success"

\* How many times x occurs in the sequence s.
CountIn(s, x) == Cardinality({i \in DOMAIN s : s[i] = x})

\* How many slots of q hold x.
Held(q, x) == Cardinality({p \in 0..(N - 1) : q.data[p] = x})

\* The items the last call handed to the buffer: the item of an accepted or
\* overwriting push, the item stored through a mutable reference, the clones
\* a clone is made of.
Accepted(x) ==
    IF hist.op \in {"push_back", "push_front"}
    THEN IF hist.res.status = "Success" /\ hist.arg = x THEN 1 ELSE 0
    ELSE IF hist.op \in {"push_back_overwrite", "push_front_overwrite"}
    THEN IF hist.arg = x THEN 1 ELSE 0
    ELSE IF hist.op \in {"get_mut", "index_mut"}
    THEN IF hist.res # None /\ hist.arg[2] = Some(x) THEN 1 ELSE 0
    ELSE IF hist.op = "clone" THEN Held(queue, x)
    ELSE 0

\* The items the last call handed back to the caller by value.
Returned(x) ==
    IF hist.op \in {"pop_back", "pop_front"} /\ hist.res = Some(x) THEN 1
    ELSE 0

\* C22: every call keeps the account of the items: what the buffer held plus
\* what it accepted is what it holds now plus what it handed back plus what
\* it dropped; nothing vacant is ever read, returned or dropped, no slot is
\* dropped twice, and a destroyed buffer holds nothing.
NoLeakNoDoubleDrop ==
    /\ \A x \in 1..MaxItem :
           Held(hist.pre, x) + Accepted(x)
               = Held(queue, x) + Returned(x) + CountIn(hist.dropped, x)
    /\ CountIn(hist.dropped, Vacant) = 0
    /\ hist.op \in {"pop_back", "pop_front", "get", "index"} =>
           hist.res # Some(Vacant)
    /\ hist.op \in {"get_mut", "index_mut"} /\ hist.res # None =>
           hist.res[1] \in Occupied(hist.pre)
    /\ hist.op \in {"clear", "drop", "clone"} =>
           /\ \A i, j \in DOMAIN clear_slots(hist.pre) :
                  i # j => clear_slots(hist.pre)[i] # clear_slots(hist.pre)[j]
           /\ {clear_slots(hist.pre)[i] : i \in DOMAIN clear_slots(hist.pre)}
                  = Occupied(hist.pre)
    /\ ~alive => Occupied(queue) = {}

NoLeakWitness ==
    /\ hist.op = "drop"
    /\ ~alive
    /\ N >= 3
    /\ Len(hist.dropped) = N
    /\ hist.pre.start = N - 1

\* What logical index i of q is, by the layout: the content of slot
\* (start + i) mod N.
Logical(q, i) == q.data[(q.start + i) % N]

\* C23: get(i) and get_mut(i) give the element at logical index i when
\* i < len and absence otherwise, whatever start is, never panic and leave the
\* buffer as it was (a store through the mutable reference changes that one
\* element); dequeue[i] gives the same element when i < len and panics exactly
\* when i >= len.
GetContract ==
    LET pre == hist.pre
    IN  /\ hist.op \in {"get", "index"} =>
               LET i == hist.arg
               IN  /\ queue = pre
                   /\ i < len(pre) =>
                          /\ hist.res = Some(Logical(pre, i))
                          /\ Logical(pre, i) # Vacant
                          /\ panic = ""
                   /\ i >= len(pre) =>
                          /\ hist.res = None
                          /\ (panic # "") <=> (hist.op = "index")
        /\ hist.op \in {"get_mut", "index_mut"} =>
               LET i == hist.arg[1]
                   w == hist.arg[2]
               IN  /\ queue.start = pre.start /\ queue.len = pre.len
                   /\ i < len(pre) =>
                          /\ hist.res = Some((pre.start + i) % N)
                          /\ Logical(pre, i) # Vacant
                          /\ panic = ""
                          /\ queue.data =
                                 IF w = None THEN pre.data
                                 ELSE [pre.data EXCEPT
                                          ![(pre.start + i) % N] = w[1]]
                   /\ i >= len(pre) =>
                          /\ hist.res = None
                          /\ queue = pre
                          /\ (panic # "") <=> (hist.op = "index_mut")

GetWitness ==
    /\ hist.op = "index"
    /\ N >= 3
    /\ hist.pre.start = N - 1
    /\ hist.pre.len = N - 1
    /\ hist.arg = N - 1
    /\ panic = "Index out of bounds: index 2, but length 2"

\* C24: pop_back and pop_front on an empty buffer return None and leave the
\* buffer, start and len included, as it was, whatever its start; the buffer
\* then still takes every mix of N pushes.
EmptyPop ==
    hist.op \in {"pop_back", "pop_front"} /\ len(hist.pre) = 0 =>
        /\ hist.res = None
        /\ queue = hist.pre
        /\ panic = ""
        /\ \A ops \in [1..N -> {"back", "front"} \X (1..MaxItem)] :
               PushEach(queue, ops).ok

EmptyPopWitness ==
    /\ hist.op = "pop_front"
    /\ len(hist.pre) = 0
    /\ hist.pre.start = N - 1
    /\ N >= 3
    /\ hist.res = None

\* C25: clear() in any reachable state drops every occupied slot exactly once
\* and leaves the buffer as a freshly created one: len 0, start 0, every slot
\* vacant.
ClearResets ==
    hist.op = "clear" =>
        /\ \A p \in Occupied(hist.pre) :
               Cardinality({k \in DOMAIN clear_slots(hist.pre) :
                               clear_slots(hist.pre)[k] = p}) = 1
        /\ Len(hist.dropped) = Cardinality(Occupied(hist.pre))
        /\ queue.len = 0
        /\ queue.start = 0
        /\ queue = new

\* C26: the clone of a buffer in any reachable layout has the same len, an
\* equal element at every logical index and start 0, with nothing in the
\* slots beyond len; the buffer it was made from is not changed by clone(),
\* dropping that buffer afterwards takes nothing from the clone, and further
\* calls on the clone give what they give on the original.
CloneContract ==
    /\ hist.op = "clone" =>
           /\ queue.len = hist.pre.len
           /\ queue.start = 0
           /\ \A i \in 0..(queue.len - 1) :
                  /\ get(queue, i) = Some(Logical(hist.pre, i))
                  /\ Logical(hist.pre, i) # Vacant
           /\ Occupied(queue) = 0..(queue.len - 1)
           /\ Len(hist.dropped) = hist.pre.len
    /\ alive =>
           /\ Contents(clone(queue)) = Contents(queue)
           /\ \A x \in 1..MaxItem :
                  /\ Contents(push_back(clone(queue), x).queue)
                         = Contents(push_back(queue, x).queue)
                  /\ Contents(pop_front(clone(queue)).queue)
                         = Contents(pop_front(queue).queue)

CloneWitness ==
    /\ hist.op = "clone"
    /\ N >= 3
    /\ hist.pre.start = N - 1
    /\ hist.pre.len = N
    /\ queue.start = 0
    /\ Logical(hist.pre, 0) # Logical(hist.pre, 1)

\* C29: a successful push_front and every push_front_overwrite move start back
\* by one slot modulo N (0 becomes N - 1); a successful pop_front and a
\* push_back_overwrite on a full buffer move it forward by one modulo N
\* (N - 1 becomes 0); push_back, accepted or rejected, pop_back, get and
\* get_mut leave start where it was.
StartMovement ==
    LET was   == hist.pre.start
        back  == IF was = 0 THEN N - 1 ELSE was - 1
        forth == IF was = N - 1 THEN 0 ELSE was + 1
        full  == hist.pre.len = N
    IN  /\ hist.op = "push_front" =>
               queue.start = IF hist.res.status = "Success" THEN back ELSE was
        /\ hist.op = "push_front_overwrite" => queue.start = back
        /\ hist.op = "pop_front" =>
               queue.start = IF hist.res # None THEN forth ELSE was
        /\ hist.op = "push_back_overwrite" =>
               queue.start = IF full THEN forth ELSE was
        /\ hist.op \in {"push_back", "pop_back", "get", "get_mut"} =>
               queue.start = was

StartMovementWitness ==
    /\ hist.op = "push_back_overwrite"
    /\ hist.pre.len = N
    /\ hist.pre.start = N - 1
    /\ queue.start = 0
    /\ N >= 3

----------------------------------------------------------------------------
(* Further properties of the adapter, checked under Spec.                   *)

\* C27: whenever peek_forward is called on a cursor of window Ind, what its
\* two debug assertions state is true: a buffer of at most Ind items has
\* exactly Ind, and on the path that returns Ok the buffer, after the push if
\* there was one, has exactly Ind + 1 items.
PeekForwardAssertions ==
    hist.op = "peek_forward" =>
        LET Ind   == hist.arg
            b     == len(hist.pre.queue)
            pulls == b <= Ind
            after == IF pulls THEN b + 1 ELSE b
        IN  /\ pulls => b = Ind
            /\ ~(pulls /\ hist.pre.inner = <<>>) => after = Ind + 1
            /\ panic # "At this point, number of buffered elements can only be 1 less"
            /\ panic # "At this point, buffer should contain enough elements"

\* C28: nth(n) never panics: in its buffer branch, n <= len, every pop_front
\* finds an item.
NthNeverPanics ==
    hist.op = "nth" =>
        /\ panic = ""
        /\ hist.arg <= len(hist.pre.queue) =>
               /\ hist.res # None
               /\ len(queue) < len(hist.pre.queue)

\* C30: dereferencing a cursor of window Ind gives the buffered item at
\* logical index Ind - 1 and consumes nothing: for bpeek1 that is the next
\* item of the adapter, after a successful peek_forward the item the step
\* exposed.
DerefContract ==
    /\ hist.op = "deref" =>
           /\ panic = ""
           /\ hist.res = Some(Contents(hist.pre.queue)[hist.arg])
           /\ Self = hist.pre
           /\ cursor = hist.arg
    /\ hist.op = "bpeek" /\ hist.arg = 1 /\ hist.res # None =>
           deref(Self, cursor).res = Some(Head(Remaining(hist.pre)))
    /\ hist.op = "peek_forward" /\ hist.res.ok /\ panic = "" =>
           /\ deref(Self, cursor).res = Some(Remaining(hist.pre)[hist.arg + 1])
           /\ len(hist.pre.queue) <= hist.arg =>
                  deref(Self, cursor).res = Some(Head(hist.pre.inner))

DerefWitness ==
    /\ hist.op = "deref"
    /\ hist.arg = 2
    /\ hist.res = Some(2)
    /\ Len(Contents(queue)) = 3
    /\ inner # <<>>

\* C32: partition(f) asks f about every remaining item exactly once, in the
\* order buffer front to back and then source, also where a run ends on an
\* item whose answer is kept for the next run and where the buffer is
\* refilled; each item goes to the collection of its own answer.
PartitionCalls ==
    hist.op = "partition" =>
        LET rem == Remaining(hist.pre)
        IN  /\ panic = ""
            /\ hist.calls = rem
            /\ \A x \in Items(rem) :
                   /\ CountIn(hist.calls, x) = 1
                   /\ pred(hist.arg, x) => CountIn(hist.res[1], x) = 1
                                           /\ CountIn(hist.res[2], x) = 0
                   /\ ~pred(hist.arg, x) => CountIn(hist.res[1], x) = 0
                                            /\ CountIn(hist.res[2], x) = 1

\* C32 witness: partition() over more items than the buffer takes, two of
\* them buffered before, with answers that alternate so that every run but the
\* first starts on a kept answer.
PartitionCallsWitness ==
    /\ hist.op = "partition"
    /\ N = 2
    /\ Len(Contents(hist.pre.queue)) = 2
    /\ Len(hist.pre.inner) >= 2
    /\ Len(hist.calls) = 4
    /\ \A i \in 1..3 :
           pred(hist.arg, hist.calls[i]) # pred(hist.arg, hist.calls[i + 1])

----------------------------------------------------------------------------
(* A further property of the bare Dequeue, checked under SpecDq.            *)

\* C31: on a buffer below capacity push_back(x) then pop_back returns x and
\* restores start, len and the logical contents, and so does push_front(x)
\* then pop_front; on a full buffer push_back_overwrite(x) then pop_back and
\* push_front_overwrite(x) then pop_front return x.
RoundTrip ==
    alive =>
        \A x \in 1..MaxItem :
            LET back   == pop_back(push_back(queue, x).queue)
                front  == pop_front(push_front(queue, x).queue)
                backO  == pop_back(push_back_overwrite(queue, x).queue)
                frontO == pop_front(push_front_overwrite(queue, x).queue)
            IN  /\ len(queue) < N =>
                       /\ push_back(queue, x).status = "Success"
                       /\ back.res = Some(x)
                       /\ back.queue.start = queue.start
                       /\ back.queue.len = queue.len
                       /\ Contents(back.queue) = Contents(queue)
                       /\ push_front(queue, x).status = "Success"
                       /\ front.res = Some(x)
                       /\ front.queue.start = queue.start
                       /\ front.queue.len = queue.len
                       /\ Contents(front.queue) = Contents(queue)
                /\ len(queue) = N =>
                       /\ backO.res = Some(x)
                       /\ frontO.res = Some(x)

\* C31 witness: pop_front gave back the item that push_front had just put on
\* the state the buffer is in again, a wrapped layout below capacity.
RoundTripWitness ==
    /\ hist.op = "pop_front"
    /\ hist.res # None
    /\ hist.pre = push_front(queue, hist.res[1]).queue
    /\ queue.start + queue.len > N
    /\ queue.len < N
    /\ N >= 3


====
